---------------------------- MODULE Spec2Model ----------------------------
(***************************************************************************)
(* A model of src/app.py: the sandboxed file server with a recycle bin.    *)
(*                                                                         *)
(* Strings are sequences of one-character strings, so that the string      *)
(* operations of the code (startswith, replace, strip, suffix, the "/"     *)
(* separated parse of a path) are computed character by character.         *)
(* An absolute path is the sequence of its components: <<>> is "/",        *)
(* << <<"r">> >> is "/r".  The filesystem is a function from the absolute  *)
(* paths that exist to their nodes; it has no symbolic links, and path     *)
(* syntax is POSIX ("/" separates, a leading "/" makes a path absolute).   *)
(*                                                                         *)
(* Names are abbreviated: the shared directory is "/r", its sibling with   *)
(* the same string prefix is "/r2", the recycle bin '回收站' is "T", the   *)
(* metadata document '.metadata.json' is ".m.j", the fallback name         *)
(* 'unnamed' is "un", and the uuid4 of the k-th soft delete is the digit k.*)
(***************************************************************************)
EXTENDS Integers, Sequences, FiniteSets, TLC

VARIABLES
    fs,       \* the filesystem: absolute path -> node
    now,      \* datetime.now(), in ticks
    nextId,   \* the number of uuids drawn so far, plus one
    fileOps,  \* the mkdir/rename/copy/move calls that succeeded so far
    last,     \* the request handled last, with its response
    purged,   \* history: the ids a permanent delete has removed
    req       \* the requests in flight, or the input of a pure function

vars == <<fs, now, nextId, fileOps, last, purged, req>>

---------------------------------------------------------------------------
(* Bounds of the model *)

\* soft deletes in one behaviour (uuids drawn)
MaxIds == 2
\* successful mkdir/rename/copy/move calls in one behaviour
MaxFileOps == 2
\* nodes the filesystem may hold
MaxNodes == 9
\* soft deletes plus successful file operations where the two are mixed
MaxMixed == 2
\* segments of a path string sent to get_safe_path
MaxSegs == 3
\* the longest name given to safe_filename
MaxNameLen == 3
\* ticks in one day: the clock is finer than the whole days Sweep counts
TicksPerDay == 2

\* CONFIG['RECYCLE_DAYS']
RECYCLE_DAYS == 30

---------------------------------------------------------------------------
(* Strings *)

\* str.startswith
startswith(s, prefix) ==
    /\ Len(prefix) <= Len(s)
    /\ SubSeq(s, 1, Len(prefix)) = prefix

\* the characters of s that are not in the set bad, in order
RECURSIVE RemoveChars(_, _)
RemoveChars(s, bad) ==
    IF s = <<>> THEN <<>>
    ELSE IF Head(s) \in bad THEN RemoveChars(Tail(s), bad)
         ELSE <<Head(s)>> \o RemoveChars(Tail(s), bad)

\* str.lstrip(chars)
RECURSIVE lstrip(_, _)
lstrip(s, chars) ==
    IF s # <<>> /\ Head(s) \in chars THEN lstrip(Tail(s), chars) ELSE s

\* str.rstrip(chars)
RECURSIVE rstrip(_, _)
rstrip(s, chars) ==
    IF s # <<>> /\ s[Len(s)] \in chars
    THEN rstrip(SubSeq(s, 1, Len(s) - 1), chars) ELSE s

\* str.strip(chars)
strip(s, chars) == rstrip(lstrip(s, chars), chars)

\* str.split("/"): the segments between the separators
RECURSIVE SplitAcc(_, _, _)
SplitAcc(s, cur, acc) ==
    IF s = <<>> THEN Append(acc, cur)
    ELSE IF Head(s) = "/" THEN SplitAcc(Tail(s), <<>>, Append(acc, cur))
         ELSE SplitAcc(Tail(s), Append(cur, Head(s)), acc)

split(s) == SplitAcc(s, <<>>, <<>>)

\* "/".join(segments)
RECURSIVE join(_)
join(segs) ==
    IF segs = <<>> THEN <<>>
    ELSE IF Len(segs) = 1 THEN segs[1]
         ELSE segs[1] \o <<"/">> \o join(Tail(segs))

\* the largest index of character c in s, 0 when there is none (str.rfind + 1)
RECURSIVE rfind(_, _)
rfind(s, c) ==
    IF s = <<>> THEN 0
    ELSE IF s[Len(s)] = c THEN Len(s)
         ELSE rfind(SubSeq(s, 1, Len(s) - 1), c)

\* PurePath.suffix of a file name: from the last dot on, unless that dot
\* leads or ends the name
suffix(name) ==
    LET i == rfind(name, ".")
    IN  IF 1 < i /\ i < Len(name) THEN SubSeq(name, i, Len(name)) ELSE <<>>

---------------------------------------------------------------------------
(* Paths *)

\* CONFIG['SHARED_DIRECTORY'], resolved: "/r"
SHARED_DIRECTORY == << <<"r">> >>

\* CONFIG['RECYCLE_BIN']
RECYCLE_BIN == <<"T">>

\* '.metadata.json'
METADATA_NAME == <<".", "m", ".", "j">>

\* str(path) of an absolute path
RECURSIVE str(_)
str(path) ==
    IF path = <<>> THEN <<"/">>
    ELSE IF Len(path) = 1 THEN <<"/">> \o path[1]
         ELSE <<"/">> \o path[1] \o str(Tail(path))

\* the components pathlib keeps of a parsed string: no empty ones, no "."
RECURSIVE Components(_)
Components(segs) ==
    IF segs = <<>> THEN <<>>
    ELSE IF Head(segs) = <<>> \/ Head(segs) = <<".">>
         THEN Components(Tail(segs))
         ELSE <<Head(segs)>> \o Components(Tail(segs))

\* base / relative_path: an absolute right operand replaces the base
PathJoin(base, s) ==
    IF s # <<>> /\ Head(s) = "/" THEN Components(split(s))
    ELSE base \o Components(split(s))

\* Path.resolve() without symbolic links: ".." drops the component before it
RECURSIVE ResolveAcc(_, _)
ResolveAcc(comps, acc) ==
    IF comps = <<>> THEN acc
    ELSE IF Head(comps) = <<".", ".">>
         THEN ResolveAcc(Tail(comps),
                         IF acc = <<>> THEN <<>> ELSE SubSeq(acc, 1, Len(acc) - 1))
         ELSE ResolveAcc(Tail(comps), Append(acc, Head(comps)))

resolve(path) == ResolveAcc(path, <<>>)

\* path is p or a descendant of p (PurePath.is_relative_to)
is_relative_to(path, p) ==
    /\ Len(p) <= Len(path)
    /\ SubSeq(path, 1, Len(p)) = p

\* Path.parent (the parent of "/" is "/")
parent(path) == IF path = <<>> THEN <<>> ELSE SubSeq(path, 1, Len(path) - 1)

\* Path.name
name(path) == IF path = <<>> THEN <<>> ELSE path[Len(path)]

\* the target of get_safe_path before the containment check
SafeTarget(relative_path) == resolve(PathJoin(SHARED_DIRECTORY, relative_path))

\* the containment check of get_safe_path: a prefix test on the two strings
SafeCheck(relative_path) ==
    startswith(str(SafeTarget(relative_path)), str(resolve(SHARED_DIRECTORY)))

\* get_safe_path: the resolved path, or abort(403)
get_safe_path(relative_path) ==
    IF SafeCheck(relative_path)
    THEN [ok |-> TRUE, path |-> SafeTarget(relative_path)]
    ELSE [ok |-> FALSE, path |-> <<>>]

\* get_recycle_bin_path()
get_recycle_bin_path == Append(SHARED_DIRECTORY, RECYCLE_BIN)

\* get_metadata_file()
get_metadata_file == Append(get_recycle_bin_path, METADATA_NAME)

\* the string a client sends for an absolute path under the shared directory
RelStr(path) ==
    join(SubSeq(path, Len(SHARED_DIRECTORY) + 1, Len(path)))

---------------------------------------------------------------------------
(* Filename sanitization *)

\* dangerous_chars of safe_filename
dangerous_chars == {"/", "\\", ":", "*", "?", "\"", "<", ">", "|"}

\* the control characters of the model's alphabet ([\x00-\x1f\x7f-\x9f])
control_chars == {"\t", "\n"}

\* the strip done before the replaces and the re.sub
StrippedEarly(filename) ==
    RemoveChars(RemoveChars(strip(filename, {".", " "}), dangerous_chars),
                control_chars)

\* safe_filename before its fallback: the replaces, the re.sub and the strip
Stripped(filename) ==
    strip(RemoveChars(RemoveChars(filename, dangerous_chars), control_chars),
          {".", " "})

\* the fallback name 'unnamed'
UNNAMED == <<"u", "n">>

\* safe_filename
safe_filename(filename) ==
    IF Stripped(filename) = <<>> THEN UNNAMED ELSE Stripped(filename)

---------------------------------------------------------------------------
(* The filesystem *)

DirNode == [kind |-> "dir"]

\* a regular file with opaque content; its size is the content's number
FileNode(data) == [kind |-> "file", data |-> data]

\* the metadata document: a file whose content is the JSON mapping, kept as
\* the sequence of its entries in insertion order
MetaNode(metadata) == [kind |-> "file", meta |-> metadata]

exists(f, path) == path \in DOMAIN f

is_dir(f, path) == path \in DOMAIN f /\ f[path].kind = "dir"

is_file(f, path) == path \in DOMAIN f /\ f[path].kind = "file"

\* path and everything below it
Under(f, path) == {q \in DOMAIN f : is_relative_to(q, path)}

\* the path q of the tree at src, seen in the tree at dst
Rebase(q, src, dst) == dst \o SubSeq(q, Len(src) + 1, Len(q))

\* Path.unlink of a file, shutil.rmtree of a directory
RemoveTree(f, path) == [q \in DOMAIN f \ Under(f, path) |-> f[q]]

\* shutil.copy2 of a file, shutil.copytree of a directory: the tree at src
\* also at dst
CopyTree(f, src, dst) ==
    LET new == {Rebase(q, src, dst) : q \in Under(f, src)}
    IN  [q \in DOMAIN f \cup new |->
            IF q \in new
            THEN f[CHOOSE s \in Under(f, src) : Rebase(s, src, dst) = q]
            ELSE f[q]]

\* os.rename of a tree onto a path
MoveTree(f, src, dst) ==
    LET g == CopyTree(RemoveTree(f, dst), src, dst)
    IN  [q \in DOMAIN g \ Under(f, src) |-> g[q]]

\* the proper ancestors of a path, "/" included
Ancestors(path) == {SubSeq(path, 1, n) : n \in 0 .. Len(path) - 1}

\* Path.mkdir(parents=True, exist_ok=...): raises when the path exists (unless
\* exist_ok and it is a directory) or an ancestor is a file
mkdir_parents(f, path, exist_ok) ==
    IF exists(f, path)
    THEN [ok |-> exist_ok /\ is_dir(f, path), fs |-> f]
    ELSE IF \E a \in Ancestors(path) : is_file(f, a)
         THEN [ok |-> FALSE, fs |-> f]
         ELSE [ok |-> TRUE,
               fs |-> [q \in DOMAIN f \cup Ancestors(path) \cup {path} |->
                          IF q \in DOMAIN f THEN f[q] ELSE DirNode]]

\* shutil.move(src, dst): into dst when dst is a directory; raises when the
\* source is missing, the destination's parent is no directory, the entry
\* already exists in a destination directory, a directory would move into
\* itself or onto a file; a file moved onto a file replaces it
shutil_move(f, src, dst) ==
    LET real_dst == IF is_dir(f, dst) /\ src # dst
                    THEN Append(dst, name(src)) ELSE dst
    IN  IF ~exists(f, src) THEN [ok |-> FALSE, fs |-> f]
        ELSE IF src = dst THEN [ok |-> TRUE, fs |-> f]
        ELSE IF is_dir(f, dst) /\ exists(f, real_dst) THEN [ok |-> FALSE, fs |-> f]
        ELSE IF ~is_dir(f, parent(real_dst)) THEN [ok |-> FALSE, fs |-> f]
        ELSE IF is_dir(f, src) /\ is_relative_to(real_dst, src)
             THEN [ok |-> FALSE, fs |-> f]
        ELSE IF is_dir(f, src) /\ exists(f, real_dst) THEN [ok |-> FALSE, fs |-> f]
        ELSE [ok |-> TRUE, fs |-> MoveTree(f, src, real_dst)]

\* st_size of a file (of the metadata document: the number of its entries)
st_size(node) == IF "meta" \in DOMAIN node THEN Len(node.meta) ELSE node.data

\* the sum of st_size over a set of files
RECURSIVE SumSizes(_, _)
SumSizes(f, paths) ==
    IF paths = {} THEN 0
    ELSE LET q == CHOOSE x \in paths : TRUE
         IN  st_size(f[q]) + SumSizes(f, paths \ {q})

\* get_dir_size: the files found by rglob('*')
get_dir_size(f, path) ==
    SumSizes(f, {q \in Under(f, path) : q # path /\ is_file(f, q)})

---------------------------------------------------------------------------
(* The metadata store *)

\* the ids of a metadata mapping
MetaIds(metadata) == {metadata[i].id : i \in 1 .. Len(metadata)}

\* metadata[item_id]
MetaGet(metadata, item_id) ==
    metadata[CHOOSE i \in 1 .. Len(metadata) : metadata[i].id = item_id]

\* del metadata[item_id] for each id of a set
MetaDel(metadata, ids) == SelectSeq(metadata, LAMBDA e : e.id \notin ids)

\* metadata[item_id] = info: in place when the key exists, else at the end
MetaPut(metadata, info) ==
    IF info.id \in MetaIds(metadata)
    THEN [i \in 1 .. Len(metadata) |->
             IF metadata[i].id = info.id THEN info ELSE metadata[i]]
    ELSE Append(metadata, info)

\* load_metadata: the document's mapping; {} when it is missing or unreadable
load_metadata(f) ==
    IF is_file(f, get_metadata_file) /\ "meta" \in DOMAIN f[get_metadata_file]
    THEN f[get_metadata_file].meta
    ELSE <<>>

\* save_metadata: writes the document; an open() that fails is only printed
save_metadata(f, metadata) ==
    IF is_dir(f, get_recycle_bin_path) /\ ~is_dir(f, get_metadata_file)
    THEN [q \in DOMAIN f \cup {get_metadata_file} |->
             IF q = get_metadata_file THEN MetaNode(metadata) ELSE f[q]]
    ELSE f

\* the extension a record's object carries in the recycle bin
RecordExt(info) == IF info.is_dir THEN <<>> ELSE suffix(info.original_name)

\* recycle_bin / f"{item_id}{ext}"
ItemPath(info) == Append(get_recycle_bin_path, info.id \o RecordExt(info))

\* (current_time - deleted_time).days
days_diff(current_time, deleted_time) ==
    (current_time - deleted_time) \div TicksPerDay

---------------------------------------------------------------------------
(* The recycle bin *)

\* the record add_to_recycle_bin writes for the object it moved to dest_path
NewRecord(f, unique_id, item_path, original_path, dest_path, current_time) ==
    [id            |-> unique_id,
     original_name |-> name(item_path),
     original_path |-> original_path,
     deleted_time  |-> current_time,
     is_dir        |-> is_dir(f, dest_path),
     size          |-> IF is_dir(f, dest_path) THEN get_dir_size(f, dest_path)
                       ELSE st_size(f[dest_path])]

\* add_to_recycle_bin up to its shutil.move: the bin is created when missing
\* and the object moved to recycle_bin / f"{unique_id}{ext}"
MoveToBin(f, item_path, unique_id) ==
    LET made == IF exists(f, get_recycle_bin_path) THEN [ok |-> TRUE, fs |-> f]
                ELSE mkdir_parents(f, get_recycle_bin_path, FALSE)
        ext  == IF is_file(made.fs, item_path) THEN suffix(name(item_path))
                ELSE <<>>
        dest_path == Append(get_recycle_bin_path, unique_id \o ext)
        moved == shutil_move(made.fs, item_path, dest_path)
    IN  IF ~made.ok THEN [ok |-> FALSE, fs |-> made.fs, dest_path |-> dest_path]
        ELSE [ok |-> moved.ok, fs |-> moved.fs, dest_path |-> dest_path]

\* an add_to_recycle_bin that loads the mapping again when it saves
AppendRecordFresh(f, metadata, unique_id, item_path, original_path, dest_path, current_time) ==
    save_metadata(f, MetaPut(load_metadata(f),
        NewRecord(f, unique_id, item_path, original_path, dest_path, current_time)))

\* add_to_recycle_bin after its load_metadata: the record is put into the
\* loaded mapping and the mapping saved
AppendRecord(f, metadata, unique_id, item_path, original_path, dest_path, current_time) ==
    save_metadata(f, MetaPut(metadata,
        NewRecord(f, unique_id, item_path, original_path, dest_path, current_time)))

\* add_to_recycle_bin
add_to_recycle_bin(f, item_path, original_path, unique_id, current_time) ==
    LET m == MoveToBin(f, item_path, unique_id)
    IN  IF ~m.ok THEN [ok |-> FALSE, fs |-> m.fs]
        ELSE [ok |-> TRUE,
              fs |-> AppendRecord(m.fs, load_metadata(m.fs), unique_id, item_path,
                                  original_path, m.dest_path, current_time)]

\* the test of clean_old_items on a record's age
ExpiredEarly(current_time, info) ==
    days_diff(current_time, info.deleted_time) >= RECYCLE_DAYS - 1

\* days_diff >= CONFIG['RECYCLE_DAYS']
Expired(current_time, info) ==
    days_diff(current_time, info.deleted_time) >= RECYCLE_DAYS

\* a test that lists an expired record for removal whether or not its object
\* is there
PurgesMissing(f, current_time, info, failing) ==
    /\ Expired(current_time, info)
    /\ info.id \notin failing

\* whether clean_old_items deletes the object of a record and lists the
\* record for removal: expired, present, and the deletion does not raise
Purges(f, current_time, info, failing) ==
    /\ Expired(current_time, info)
    /\ exists(f, ItemPath(info))
    /\ info.id \notin failing

\* the loop of clean_old_items over metadata.items(); failing holds the ids
\* whose unlink/rmtree raises
RECURSIVE CleanLoop(_, _, _, _, _)
CleanLoop(f, items, current_time, failing, items_to_remove) ==
    IF items = <<>> THEN [fs |-> f, items_to_remove |-> items_to_remove]
    ELSE LET info == Head(items)
         IN  IF Purges(f, current_time, info, failing)
             THEN CleanLoop(RemoveTree(f, ItemPath(info)), Tail(items),
                            current_time, failing, items_to_remove \cup {info.id})
             ELSE CleanLoop(f, Tail(items), current_time, failing, items_to_remove)

\* the end of clean_old_items with the del of the removed ids left out
SweepSaveAll(f, metadata, items_to_remove) ==
    IF items_to_remove # {} THEN save_metadata(f, metadata) ELSE f

\* the end of clean_old_items with a save in every case
SweepSaveAlways(f, metadata, items_to_remove) ==
    save_metadata(f, MetaDel(metadata, items_to_remove))

\* the end of clean_old_items: the removed ids leave the loaded mapping, which
\* is saved only when some id was removed
SweepSave(f, metadata, items_to_remove) ==
    IF items_to_remove # {}
    THEN save_metadata(f, MetaDel(metadata, items_to_remove))
    ELSE f

\* clean_old_items
clean_old_items(f, current_time, failing) ==
    LET metadata == load_metadata(f)
        r == CleanLoop(f, metadata, current_time, failing, {})
    IN  [fs    |-> SweepSave(r.fs, metadata, r.items_to_remove),
         count |-> Cardinality(r.items_to_remove)]

\* a row whose days_left is not floored at 0
ListItemRaw(info, current_time) ==
    [id            |-> info.id,
     name          |-> info.original_name,
     original_path |-> info.original_path,
     is_dir        |-> info.is_dir,
     deleted_time  |-> info.deleted_time,
     days_left     |-> RECYCLE_DAYS - days_diff(current_time, info.deleted_time)]

\* one row of the recycle-bin page
ListItem(info, current_time) ==
    [id            |-> info.id,
     name          |-> info.original_name,
     original_path |-> info.original_path,
     is_dir        |-> info.is_dir,
     deleted_time  |-> info.deleted_time,
     days_left     |-> IF RECYCLE_DAYS - days_diff(current_time, info.deleted_time) > 0
                       THEN RECYCLE_DAYS - days_diff(current_time, info.deleted_time)
                       ELSE 0]

\* list.sort(key=deleted_time, reverse=True): stable, latest first
RECURSIVE InsertItem(_, _)
InsertItem(sorted, item) ==
    IF sorted = <<>> THEN <<item>>
    ELSE IF Head(sorted).deleted_time >= item.deleted_time
         THEN <<Head(sorted)>> \o InsertItem(Tail(sorted), item)
         ELSE <<item>> \o sorted

RECURSIVE SortItems(_)
SortItems(items) ==
    IF items = <<>> THEN <<>>
    ELSE InsertItem(SortItems(SubSeq(items, 1, Len(items) - 1)), items[Len(items)])

\* the rows of the recycle-bin page: the records whose object exists
ListItems(f, current_time) ==
    LET metadata == load_metadata(f)
        present  == SelectSeq(metadata, LAMBDA info : exists(f, ItemPath(info)))
    IN  SortItems([i \in 1 .. Len(present) |-> ListItem(present[i], current_time)])

---------------------------------------------------------------------------
(* The request handlers: each gives the response and the filesystem left *)

\* a response
Resp(status, f) == [status |-> status, fs |-> f]

\* a delete without the test for the recycle bin itself
deleteAnything(f, filepath, unique_id, current_time) ==
    IF filepath = <<>> THEN [status |-> "BadRequest", fs |-> f, drew |-> FALSE]
    ELSE LET target == get_safe_path(filepath)
         IN  IF ~target.ok
             THEN [status |-> "OutOfBounds", fs |-> f, drew |-> FALSE]
             ELSE IF ~exists(f, target.path)
             THEN [status |-> "NotFound", fs |-> f, drew |-> FALSE]
             ELSE LET a == add_to_recycle_bin(f, target.path, filepath,
                                              unique_id, current_time)
                  IN  [status |-> IF a.ok THEN "Ok" ELSE "IOFailure",
                       fs |-> a.fs, drew |-> TRUE]

\* the handler of /delete; drew tells whether a uuid was drawn
delete(f, filepath, unique_id, current_time) ==
    IF filepath = <<>> THEN [status |-> "BadRequest", fs |-> f, drew |-> FALSE]
    ELSE LET target == get_safe_path(filepath)
         IN  IF ~target.ok
             THEN [status |-> "OutOfBounds", fs |-> f, drew |-> FALSE]
             ELSE IF ~exists(f, target.path)
             THEN [status |-> "NotFound", fs |-> f, drew |-> FALSE]
             ELSE IF resolve(target.path) = resolve(get_recycle_bin_path)
             THEN [status |-> "InvalidOperation", fs |-> f, drew |-> FALSE]
             ELSE LET a == add_to_recycle_bin(f, target.path, filepath,
                                              unique_id, current_time)
                  IN  [status |-> IF a.ok THEN "Ok" ELSE "IOFailure",
                       fs |-> a.fs, drew |-> TRUE]

\* a restore that does not make the parent directories
RestoreItemFlat(f, metadata, info) ==
    LET original_path == get_safe_path(info.original_path)
        moved == shutil_move(f, ItemPath(info), original_path.path)
    IN  IF ~original_path.ok THEN Resp("IOFailure", f)
        ELSE IF exists(f, original_path.path) THEN Resp("AlreadyExists", f)
        ELSE IF ~moved.ok THEN Resp("IOFailure", f)
        ELSE Resp("Ok", save_metadata(moved.fs, MetaDel(metadata, {info.id})))

\* restore after its two NotFound checks: the object goes back to the
\* recorded path and the record leaves the loaded mapping
RestoreItem(f, metadata, info) ==
    LET original_path == get_safe_path(info.original_path)
        made  == mkdir_parents(f, parent(original_path.path), TRUE)
        moved == shutil_move(made.fs, ItemPath(info), original_path.path)
    IN  IF ~original_path.ok THEN Resp("IOFailure", f)
        ELSE IF exists(f, original_path.path) THEN Resp("AlreadyExists", f)
        ELSE IF ~made.ok THEN Resp("IOFailure", f)
        ELSE IF ~moved.ok THEN Resp("IOFailure", made.fs)
        ELSE Resp("Ok", save_metadata(moved.fs, MetaDel(metadata, {info.id})))

\* a restore that drops the record of an object it does not find
restoreHealing(f, item_id) ==
    LET metadata == load_metadata(f)
    IN  IF item_id = <<>> THEN Resp("BadRequest", f)
        ELSE IF item_id \notin MetaIds(metadata) THEN Resp("NotFound", f)
        ELSE IF ~exists(f, ItemPath(MetaGet(metadata, item_id)))
        THEN Resp("NotFound", save_metadata(f, MetaDel(metadata, {item_id})))
        ELSE RestoreItem(f, metadata, MetaGet(metadata, item_id))

\* the handler of /restore
restore(f, item_id) ==
    LET metadata == load_metadata(f)
    IN  IF item_id = <<>> THEN Resp("BadRequest", f)
        ELSE IF item_id \notin MetaIds(metadata) THEN Resp("NotFound", f)
        ELSE IF ~exists(f, ItemPath(MetaGet(metadata, item_id)))
        THEN Resp("NotFound", f)
        ELSE RestoreItem(f, metadata, MetaGet(metadata, item_id))

\* a permanent delete that wants the object to be there
permanentDeleteStrict(f, item_id, raises) ==
    LET metadata == load_metadata(f)
    IN  IF item_id = <<>> THEN Resp("BadRequest", f)
        ELSE IF item_id \notin MetaIds(metadata) THEN Resp("NotFound", f)
        ELSE LET item_path == ItemPath(MetaGet(metadata, item_id))
             IN  IF ~exists(f, item_path) THEN Resp("NotFound", f)
                 ELSE IF raises THEN Resp("IOFailure", f)
                 ELSE Resp("Ok", save_metadata(RemoveTree(f, item_path),
                                               MetaDel(metadata, {item_id})))

\* the handler of /permanent-delete; raises tells whether unlink/rmtree raises
permanent_delete(f, item_id, raises) ==
    LET metadata == load_metadata(f)
    IN  IF item_id = <<>> THEN Resp("BadRequest", f)
        ELSE IF item_id \notin MetaIds(metadata) THEN Resp("NotFound", f)
        ELSE LET item_path == ItemPath(MetaGet(metadata, item_id))
             IN  IF exists(f, item_path) /\ raises THEN Resp("IOFailure", f)
                 ELSE Resp("Ok",
                           save_metadata(IF exists(f, item_path)
                                         THEN RemoveTree(f, item_path) ELSE f,
                                         MetaDel(metadata, {item_id})))

\* the loop of empty_recycle_bin; failing holds the ids whose deletion raises
RECURSIVE EmptyLoop(_, _, _, _)
EmptyLoop(f, items, failing, deleted_count) ==
    IF items = <<>> THEN [fs |-> f, deleted_count |-> deleted_count]
    ELSE LET info == Head(items)
         IN  IF exists(f, ItemPath(info)) /\ info.id \notin failing
             THEN EmptyLoop(RemoveTree(f, ItemPath(info)), Tail(items), failing,
                            deleted_count + 1)
             ELSE EmptyLoop(f, Tail(items), failing, deleted_count)

\* an empty_recycle_bin that keeps the records of the objects it did not
\* remove
emptyKeepingFailed(f, failing) ==
    LET metadata == load_metadata(f)
        r == EmptyLoop(f, metadata, failing, 0)
    IN  [status |-> "Ok",
         fs |-> save_metadata(r.fs,
                    SelectSeq(metadata, LAMBDA info : exists(r.fs, ItemPath(info)))),
         count |-> r.deleted_count]

\* the handler of /empty-recycle-bin
empty_recycle_bin(f, failing) ==
    LET r == EmptyLoop(f, load_metadata(f), failing, 0)
    IN  [status |-> "Ok", fs |-> save_metadata(r.fs, <<>>),
         count |-> r.deleted_count]

\* the handler of /recycle-bin: the sweep, then the rows of the page
recycle_bin(f, current_time, failing) ==
    LET c == clean_old_items(f, current_time, failing)
    IN  [status |-> "Ok", fs |-> c.fs, count |-> c.count,
         items |-> ListItems(c.fs, current_time)]

\* a mkdir that leaves the existence test to Path.mkdir
mkdirUnchecked(f, dirname, current_path) ==
    LET target_dir == get_safe_path(current_path)
        new_dir == Append(target_dir.path, safe_filename(dirname))
        made == mkdir_parents(f, new_dir, FALSE)
    IN  IF dirname = <<>> THEN Resp("BadRequest", f)
        ELSE IF ~target_dir.ok THEN Resp("OutOfBounds", f)
        ELSE IF made.ok THEN Resp("Ok", made.fs)
        ELSE Resp("IOFailure", f)

\* the handler of /mkdir
mkdir(f, dirname, current_path) ==
    LET target_dir == get_safe_path(current_path)
        new_dir == Append(target_dir.path, safe_filename(dirname))
        made == mkdir_parents(f, new_dir, FALSE)
    IN  IF dirname = <<>> THEN Resp("BadRequest", f)
        ELSE IF ~target_dir.ok THEN Resp("OutOfBounds", f)
        ELSE IF exists(f, new_dir) THEN Resp("AlreadyExists", f)
        ELSE IF made.ok THEN Resp("Ok", made.fs)
        ELSE Resp("IOFailure", f)

\* the name rename() works with, after safe_filename
RenameName(new_name) == safe_filename(new_name)

\* a rename that does not look at what is at the new path
renameOverwriting(f, filepath, new_name) ==
    LET target_path == get_safe_path(filepath)
        new_path == Append(parent(target_path.path), RenameName(new_name))
    IN  IF filepath = <<>> \/ new_name = <<>> THEN Resp("BadRequest", f)
        ELSE IF ~target_path.ok THEN Resp("OutOfBounds", f)
        ELSE IF ~exists(f, target_path.path) THEN Resp("NotFound", f)
        ELSE Resp("Ok", MoveTree(f, target_path.path, new_path))

\* the handler of /rename
rename(f, filepath, new_name) ==
    LET target_path == get_safe_path(filepath)
        new_path == Append(parent(target_path.path), RenameName(new_name))
    IN  IF filepath = <<>> \/ new_name = <<>> THEN Resp("BadRequest", f)
        ELSE IF RenameName(new_name) = <<>> THEN Resp("InvalidName", f)
        ELSE IF ~target_path.ok THEN Resp("OutOfBounds", f)
        ELSE IF ~exists(f, target_path.path) THEN Resp("NotFound", f)
        ELSE IF exists(f, new_path) THEN Resp("AlreadyExists", f)
        ELSE IF is_dir(f, parent(new_path))
        THEN Resp("Ok", MoveTree(f, target_path.path, new_path))
        ELSE Resp("IOFailure", f)

\* a self-containment test that misses the directory itself
StrictlyContained(f, source, dest, legacy) ==
    /\ is_dir(f, source)
    /\ is_relative_to(resolve(parent(dest)), resolve(source))
    /\ resolve(parent(dest)) # resolve(source)

\* the self-containment test of copy and move: is_relative_to on the resolved
\* paths, or, where Path has no is_relative_to (legacy), a string prefix test
SelfContained(f, source, dest, legacy) ==
    /\ is_dir(f, source)
    /\ IF legacy
       THEN startswith(str(resolve(dest)), str(resolve(source)))
       ELSE is_relative_to(resolve(dest), resolve(source))

\* what copy and move check before they touch the filesystem: "" when the
\* request passes
PreCheck(f, source_path, dest_path, legacy) ==
    LET source   == get_safe_path(source_path)
        dest_dir == get_safe_path(dest_path)
        dest     == Append(dest_dir.path, name(source.path))
    IN  IF source_path = <<>> THEN "BadRequest"
        ELSE IF ~source.ok \/ ~dest_dir.ok THEN "OutOfBounds"
        ELSE IF ~exists(f, source.path) THEN "NotFound"
        ELSE IF ~is_dir(f, dest_dir.path) THEN "NotFound"
        ELSE IF exists(f, dest) THEN "AlreadyExists"
        ELSE IF SelfContained(f, source.path, dest, legacy) THEN "InvalidOperation"
        ELSE ""

\* dest_dir / source.name
DestOf(source_path, dest_path) ==
    Append(get_safe_path(dest_path).path, name(get_safe_path(source_path).path))

\* a copy that writes a duplicate beside the entry in its way before it
\* rejects the request
CopyDuplicating(f, source_path, dest_path, legacy) ==
    IF PreCheck(f, source_path, dest_path, legacy) = "AlreadyExists"
    THEN Resp("AlreadyExists",
              CopyTree(f, get_safe_path(source_path).path,
                       Append(get_safe_path(dest_path).path,
                              name(get_safe_path(source_path).path) \o <<"c">>)))
    ELSE IF PreCheck(f, source_path, dest_path, legacy) # ""
    THEN Resp(PreCheck(f, source_path, dest_path, legacy), f)
    ELSE Resp("Ok", CopyTree(f, get_safe_path(source_path).path,
                             DestOf(source_path, dest_path)))

\* the handler of /copy
copy(f, source_path, dest_path, legacy) ==
    IF PreCheck(f, source_path, dest_path, legacy) # ""
    THEN Resp(PreCheck(f, source_path, dest_path, legacy), f)
    ELSE Resp("Ok", CopyTree(f, get_safe_path(source_path).path,
                             DestOf(source_path, dest_path)))

\* the handler of /move
move(f, source_path, dest_path, legacy) ==
    IF PreCheck(f, source_path, dest_path, legacy) # ""
    THEN Resp(PreCheck(f, source_path, dest_path, legacy), f)
    ELSE LET moved == shutil_move(f, get_safe_path(source_path).path,
                                  DestOf(source_path, dest_path))
         IN  Resp(IF moved.ok THEN "Ok" ELSE "IOFailure", moved.fs)

---------------------------------------------------------------------------
(* The sequential specifications: one request at a time *)

\* the uuid of the k-th draw
IdStr(k) == <<<<"1", "2", "3", "4", "5", "6", "7", "8", "9">>[k]>>

\* the instants the clock is read at: the start, a tick later, half a day
\* before the retention threshold, the threshold, and a day after it
Instants ==
    {0, 1, (RECYCLE_DAYS - 1) * TicksPerDay + 1, RECYCLE_DAYS * TicksPerDay,
     (RECYCLE_DAYS + 1) * TicksPerDay}

\* the tree at path as a function of the paths relative to it
Snapshot(f, path) ==
    [q \in {SubSeq(x, Len(path) + 1, Len(x)) : x \in Under(f, path)} |->
        f[path \o q]]

\* what is under the shared directory
Shared(f) == Snapshot(f, SHARED_DIRECTORY)

\* the paths a client sees in the listings
KnownPaths(f) ==
    {RelStr(q) : q \in {x \in DOMAIN f : is_relative_to(x, SHARED_DIRECTORY)
                                        /\ x # SHARED_DIRECTORY}}

\* the directories a client sees, the shared directory ("") included
KnownDirs(f) ==
    {RelStr(q) : q \in {x \in DOMAIN f : is_relative_to(x, SHARED_DIRECTORY)
                                        /\ is_dir(f, x)}}

\* paths a client may also send: one that does not exist, one that leaves
\* the shared directory
OddPaths == {<<"x">>, <<".", ".">>}

\* the paths sent to delete, rename, copy and move
UserPaths(f) == KnownPaths(f) \cup OddPaths

\* names a client sends to mkdir and rename
RawNames == {<<"n">>, <<"d">>, <<".", ".">>}

\* the ids drawn so far
DrawnIds == {IdStr(k) : k \in 1 .. nextId - 1}

\* the ids of the metadata document
StoreIds == MetaIds(load_metadata(fs))

\* the request handled last: the handler, its response, of a successful
\* delete the path sent, the id drawn and the tree that was deleted, of a
\* successful permanent delete the tree that was removed, and of the
\* recycle-bin page and of empty-recycle-bin the records of the store before
Last(op, status, id, count, items, path, snap) ==
    [op |-> op, status |-> status, id |-> id, count |-> count, items |-> items,
     path |-> path, snap |-> snap, dest |-> <<>>]

\* a file operation handled last, with the path and the destination (or the
\* name) sent
LastFile(op, status, path, dest) ==
    [Last(op, status, <<>>, 0, <<>>, path, <<>>) EXCEPT !.dest = dest]

InitFs ==
    (<<>> :> DirNode)
    @@ (SHARED_DIRECTORY :> DirNode)
    @@ (<<<<"r">>, <<"a", ".", "t">>>> :> FileNode(1))
    @@ (<<<<"r">>, <<"d">>>> :> DirNode)
    @@ (<<<<"r">>, <<"d">>, <<"f", ".", "t">>>> :> FileNode(2))

Init ==
    /\ fs = InitFs
    /\ now = 0
    /\ nextId = 1
    /\ fileOps = 0
    /\ last = Last("none", "Ok", <<>>, 0, <<>>, <<>>, <<>>)
    /\ purged = {}
    /\ req = <<>>

\* POST /delete with path=filepath
DeleteReq(filepath) ==
    LET r == delete(fs, filepath, IdStr(nextId), now)
    IN  /\ nextId <= MaxIds
        /\ fs' = r.fs
        /\ nextId' = IF r.drew THEN nextId + 1 ELSE nextId
        /\ last' = IF r.status = "Ok"
                   THEN Last("delete", "Ok", IdStr(nextId), 0, <<>>, filepath,
                             Snapshot(fs, SafeTarget(filepath)))
                   ELSE Last("delete", r.status, <<>>, 0, <<>>, <<>>, <<>>)
        /\ UNCHANGED <<now, fileOps, purged, req>>

Delete == \E filepath \in UserPaths(fs) : DeleteReq(filepath)

\* POST /restore with item_id
RestoreReq(item_id) ==
    LET r == restore(fs, item_id)
    IN  /\ fs' = r.fs
        /\ last' = Last("restore", r.status, item_id, 0, <<>>,
                        IF r.status = "Ok"
                        THEN MetaGet(load_metadata(fs), item_id).original_path
                        ELSE <<>>,
                        <<>>)
        /\ UNCHANGED <<now, nextId, fileOps, purged, req>>

Restore == \E item_id \in DrawnIds : RestoreReq(item_id)

\* POST /permanent-delete with item_id
PermanentDeleteReq(item_id, raises) ==
    LET r == permanent_delete(fs, item_id, raises)
    IN  /\ fs' = r.fs
        /\ last' = Last("permanent_delete", r.status, item_id, 0, <<>>, <<>>,
                        IF r.status = "Ok"
                        THEN Snapshot(fs, ItemPath(MetaGet(load_metadata(fs), item_id)))
                        ELSE <<>>)
        /\ purged' = IF r.status = "Ok" THEN purged \cup {item_id} ELSE purged
        /\ UNCHANGED <<now, nextId, fileOps, req>>

PermanentDelete ==
    \E item_id \in DrawnIds, raises \in BOOLEAN : PermanentDeleteReq(item_id, raises)

\* POST /empty-recycle-bin
EmptyRecycleBinReq(failing) ==
    LET r == empty_recycle_bin(fs, failing)
    IN  /\ fs' = r.fs
        /\ last' = Last("empty_recycle_bin", r.status, <<>>, r.count, <<>>, <<>>,
                        load_metadata(fs))
        /\ UNCHANGED <<now, nextId, fileOps, purged, req>>

EmptyRecycleBin == \E failing \in SUBSET StoreIds : EmptyRecycleBinReq(failing)

\* GET /recycle-bin
RecycleBinReq(failing) ==
    LET r == recycle_bin(fs, now, failing)
    IN  /\ fs' = r.fs
        /\ last' = Last("recycle_bin", r.status, <<>>, r.count, r.items, <<>>,
                        load_metadata(fs))
        /\ UNCHANGED <<now, nextId, fileOps, purged, req>>

RecycleBin == \E failing \in SUBSET StoreIds : RecycleBinReq(failing)

\* a file operation's effect on the state
FileOp(op, r, path, dest) ==
    /\ fileOps < MaxFileOps
    /\ Cardinality(DOMAIN r.fs) <= MaxNodes
    /\ fs' = r.fs
    /\ fileOps' = IF r.status = "Ok" THEN fileOps + 1 ELSE fileOps
    /\ last' = LastFile(op, r.status, path, dest)
    /\ UNCHANGED <<now, nextId, purged, req>>

\* POST /mkdir
MkdirReq(current_path, dirname) == 
    FileOp("mkdir", mkdir(fs, dirname, current_path), current_path, dirname)

Mkdir == \E current_path \in KnownDirs(fs), dirname \in RawNames :
            MkdirReq(current_path, dirname)

\* POST /rename
RenameReq(filepath, new_name) ==
    FileOp("rename", rename(fs, filepath, new_name), filepath, new_name)

Rename == \E filepath \in UserPaths(fs), new_name \in RawNames :
            RenameReq(filepath, new_name)

\* POST /copy
CopyReq(source_path, dest_path, legacy) ==
    FileOp("copy", copy(fs, source_path, dest_path, legacy), source_path, dest_path)

Copy == \E source_path \in UserPaths(fs), dest_path \in KnownDirs(fs),
           legacy \in BOOLEAN : CopyReq(source_path, dest_path, legacy)

\* POST /move
MoveReq(source_path, dest_path, legacy) ==
    FileOp("move", move(fs, source_path, dest_path, legacy), source_path, dest_path)

Move == \E source_path \in UserPaths(fs), dest_path \in KnownDirs(fs),
           legacy \in BOOLEAN : MoveReq(source_path, dest_path, legacy)

\* time passes, to a later instant
Tick ==
    /\ \E t \in Instants :
         /\ t > now
         /\ now' = t
    /\ last' = Last("tick", "Ok", <<>>, 0, <<>>, <<>>, <<>>)
    /\ UNCHANGED <<fs, nextId, fileOps, purged, req>>

\* in a behaviour that mixes the recycle bin with the file operations, the
\* soft deletes and the successful file operations share one budget
Budget == fileOps + (nextId - 1) < MaxMixed

Next ==
    \/ Budget /\ Delete
    \/ Restore
    \/ PermanentDelete
    \/ EmptyRecycleBin
    \/ RecycleBin
    \/ Budget /\ Mkdir
    \/ Budget /\ Rename
    \/ Budget /\ Copy
    \/ Budget /\ Move
    \/ Tick

Spec == Init /\ [][Next]_vars

\* the recycle bin's requests and the clock
NextBin ==
    \/ Delete
    \/ Restore
    \/ PermanentDelete
    \/ EmptyRecycleBin
    \/ RecycleBin
    \/ Tick

SpecBin == Init /\ [][NextBin]_vars

\* the file operations
NextFiles ==
    \/ Mkdir
    \/ Rename
    \/ Copy
    \/ Move

SpecFiles == Init /\ [][NextFiles]_vars

---------------------------------------------------------------------------
(* get_safe_path as a pure function of the string sent *)

\* segments of the strings sent: "..", ".", the empty segment (a leading one
\* makes the string absolute), the shared directory's name, its sibling's, a
\* file's
PathSegments == {<<".", ".">>, <<".">>, <<>>, <<"r">>, <<"r", "2">>, <<"a">>}

\* the strings sent: up to MaxSegs segments joined by "/"
PathInputs ==
    {join(segs) : segs \in UNION {[1 .. n -> PathSegments] : n \in 1 .. MaxSegs}}

InitPath ==
    /\ fs = InitFs
    /\ now = 0
    /\ nextId = 1
    /\ fileOps = 0
    /\ last = Last("none", "Ok", <<>>, 0, <<>>, <<>>, <<>>)
    /\ purged = {}
    /\ req \in {[relative_path |-> s] : s \in PathInputs}

\* a handler calls get_safe_path on the string: path is the string, target
\* the path returned
ResolvePath ==
    /\ last.op = "none"
    /\ last' = [op |-> "get_safe_path",
                status |-> IF get_safe_path(req.relative_path).ok
                           THEN "Ok" ELSE "OutOfBounds",
                path |-> req.relative_path,
                target |-> get_safe_path(req.relative_path).path]
    /\ UNCHANGED <<fs, now, nextId, fileOps, purged, req>>

NextPath == ResolvePath

SpecPath == InitPath /\ [][NextPath]_vars

---------------------------------------------------------------------------
(* safe_filename as a function of the name sent; the name it returns may be
   sent again *)

\* the characters of the names sent: a letter, the two stripped characters,
\* a dangerous character and a control character
NameChars == {"a", ".", " ", "/", "\t"}

\* the names sent: up to MaxNameLen characters, the empty name included
NameInputs == UNION {[1 .. n -> NameChars] : n \in 0 .. MaxNameLen}

InitName ==
    /\ fs = InitFs
    /\ now = 0
    /\ nextId = 1
    /\ fileOps = 0
    /\ last = [op |-> "none", filename |-> <<>>, result |-> <<>>]
    /\ purged = {}
    /\ req \in {[filename |-> s] : s \in NameInputs}

\* a handler calls safe_filename: on the name sent, and then on the name the
\* call before returned
SafeFilename ==
    LET filename == IF last.op = "none" THEN req.filename ELSE last.result
    IN  /\ last' = [op |-> "safe_filename",
                    filename |-> filename,
                    result |-> safe_filename(filename)]
        /\ UNCHANGED <<fs, now, nextId, fileOps, purged, req>>

NextName == SafeFilename

SpecName == InitName /\ [][NextName]_vars

---------------------------------------------------------------------------
(* Concurrent requests: the server handles each request in a thread of its
   own, and a handler's reads and writes of the metadata document are
   separate steps with nothing to order them against another handler's *)

\* the threads that handle requests
Workers == {"w1", "w2"}

\* a thread with no request
Idle == [pc |-> "idle"]

\* the paths sent to a concurrent delete: what exists outside the recycle bin
LivePaths(f) ==
    {q \in KnownPaths(f) : ~is_relative_to(SafeTarget(q), get_recycle_bin_path)}

InitConc ==
    /\ fs = InitFs
    /\ now = 0
    /\ nextId = 1
    /\ fileOps = 0
    /\ last = Last("none", "Ok", <<>>, 0, <<>>, <<>>, <<>>)
    /\ purged = {}
    /\ req = [w \in Workers |-> Idle]

\* POST /delete up to the shutil.move of add_to_recycle_bin: the checks of the
\* handler, the uuid, the move of the object into the recycle bin
DeleteMove(w) ==
    /\ req[w].pc = "idle"
    /\ nextId <= MaxIds
    /\ \E filepath \in LivePaths(fs) :
          LET target == get_safe_path(filepath)
              m == MoveToBin(fs, target.path, IdStr(nextId))
          IN  /\ target.ok
              /\ exists(fs, target.path)
              /\ m.ok
              /\ fs' = m.fs
              /\ req' = [req EXCEPT ![w] =
                            [pc |-> "moved", unique_id |-> IdStr(nextId),
                             item_path |-> target.path, original_path |-> filepath,
                             dest_path |-> m.dest_path, metadata |-> <<>>]]
    /\ nextId' = nextId + 1
    /\ UNCHANGED <<now, fileOps, last, purged>>

\* metadata = load_metadata() of add_to_recycle_bin
DeleteLoad(w) ==
    /\ req[w].pc = "moved"
    /\ req' = [req EXCEPT ![w].pc = "loaded", ![w].metadata = load_metadata(fs)]
    /\ UNCHANGED <<fs, now, nextId, fileOps, last, purged>>

\* the rest of add_to_recycle_bin and the response of the handler: the record
\* is put into the mapping loaded before and the mapping is saved
DeleteSave(w) ==
    /\ req[w].pc = "loaded"
    /\ fs' = AppendRecord(fs, req[w].metadata, req[w].unique_id, req[w].item_path,
                          req[w].original_path, req[w].dest_path, now)
    /\ last' = Last("delete", "Ok", req[w].unique_id, 0, <<>>,
                    req[w].original_path, <<>>)
    /\ req' = [req EXCEPT ![w] = Idle]
    /\ UNCHANGED <<now, nextId, fileOps, purged>>

\* GET /recycle-bin: metadata = load_metadata() of clean_old_items
SweepLoad(w) ==
    /\ req[w].pc = "idle"
    /\ req' = [req EXCEPT ![w] = [pc |-> "sweeping", metadata |-> load_metadata(fs),
                                  current_time |-> now, items_to_remove |-> {}]]
    /\ UNCHANGED <<fs, now, nextId, fileOps, last, purged>>

\* the loop of clean_old_items over the mapping loaded before
SweepLoop(w) ==
    /\ req[w].pc = "sweeping"
    /\ \E failing \in SUBSET MetaIds(req[w].metadata) :
          LET r == CleanLoop(fs, req[w].metadata, req[w].current_time, failing, {})
          IN  /\ fs' = r.fs
              /\ req' = [req EXCEPT ![w].pc = "swept",
                                    ![w].items_to_remove = r.items_to_remove]
    /\ UNCHANGED <<now, nextId, fileOps, last, purged>>

\* the end of clean_old_items, then the page: the mapping loaded before is
\* saved without the removed ids, and the store is loaded again for the rows
SweepStore(w) ==
    /\ req[w].pc = "swept"
    /\ fs' = SweepSave(fs, req[w].metadata, req[w].items_to_remove)
    /\ last' = Last("recycle_bin", "Ok", <<>>, Cardinality(req[w].items_to_remove),
                    ListItems(fs', now), <<>>, <<>>)
    /\ req' = [req EXCEPT ![w] = Idle]
    /\ UNCHANGED <<now, nextId, fileOps, purged>>

NextConc ==
    \/ \E w \in Workers : DeleteMove(w)
    \/ \E w \in Workers : DeleteLoad(w)
    \/ \E w \in Workers : DeleteSave(w)
    \/ \E w \in Workers : SweepLoad(w)
    \/ \E w \in Workers : SweepLoop(w)
    \/ \E w \in Workers : SweepStore(w)
    \/ Tick

SpecConc == InitConc /\ [][NextConc]_vars

---------------------------------------------------------------------------
(* Two requests at a time: each thread handles one request of a pair, the
   steps of the two interleave in every order, and the next pair is sent
   when both responses are there *)

\* a thread that has sent its response: the handler, the response, of restore
\* and permanent delete the id sent, of restore the record it loaded, whether
\* a restore alone would have succeeded when the request arrived and the tree
\* that was in the recycle bin then, of the recycle-bin page the mapping the
\* sweep loaded, the number it purged and the mapping loaded for the rows
Done(op, status, r) ==
    [pc |-> "done", op |-> op, status |-> status, item_id |-> r.item_id,
     info |-> r.info, restorable |-> r.restorable, tree |-> r.tree,
     metadata |-> r.metadata, count |-> r.count, store |-> r.store]

\* what a request that is neither restore nor the page leaves in Done
NoDetail ==
    [item_id |-> <<>>, info |-> <<>>, restorable |-> FALSE, tree |-> <<>>,
     metadata |-> <<>>, count |-> 0, store |-> <<>>]

\* the rest of add_to_recycle_bin and the response of /delete
DeleteRespond(w) ==
    /\ req[w].pc = "loaded"
    /\ fs' = AppendRecord(fs, req[w].metadata, req[w].unique_id, req[w].item_path,
                          req[w].original_path, req[w].dest_path, now)
    /\ req' = [req EXCEPT ![w] =
                  Done("delete", "Ok", [NoDetail EXCEPT !.item_id = req[w].unique_id])]
    /\ UNCHANGED <<now, nextId, fileOps, last, purged>>

\* the end of clean_old_items and the response of /recycle-bin
SweepRespond(w) ==
    /\ req[w].pc = "swept"
    /\ fs' = SweepSave(fs, req[w].metadata, req[w].items_to_remove)
    /\ req' = [req EXCEPT ![w] =
                  Done("recycle_bin", "Ok",
                       [NoDetail EXCEPT !.metadata = req[w].metadata,
                                        !.count = Cardinality(req[w].items_to_remove),
                                        !.store = load_metadata(fs')])]
    /\ UNCHANGED <<now, nextId, fileOps, last, purged>>

\* POST /restore: metadata = load_metadata() and the test of the id
RestoreLoad(w) ==
    /\ req[w].pc = "idle"
    /\ \E item_id \in DrawnIds :
          LET metadata == load_metadata(fs)
              r == [NoDetail EXCEPT !.item_id = item_id]
          IN  req' = [req EXCEPT ![w] =
                  IF item_id \notin MetaIds(metadata)
                  THEN Done("restore", "NotFound", r)
                  ELSE [pc |-> "restoring", item_id |-> item_id,
                        metadata |-> metadata,
                        info |-> MetaGet(metadata, item_id),
                        restorable |-> restore(fs, item_id).status = "Ok",
                        tree |-> Snapshot(fs, ItemPath(MetaGet(metadata, item_id))),
                        count |-> 0, store |-> <<>>]]
    /\ UNCHANGED <<fs, now, nextId, fileOps, last, purged>>

\* restore: item_path.exists()
RestoreFind(w) ==
    /\ req[w].pc = "restoring"
    /\ req' = [req EXCEPT ![w] =
                  IF exists(fs, ItemPath(req[w].info))
                  THEN [req[w] EXCEPT !.pc = "found"]
                  ELSE Done("restore", "NotFound", req[w])]
    /\ UNCHANGED <<fs, now, nextId, fileOps, last, purged>>

\* restore: get_safe_path of the recorded path and original_path.exists()
RestoreCheck(w) ==
    LET original_path == get_safe_path(req[w].info.original_path)
    IN  /\ req[w].pc = "found"
        /\ req' = [req EXCEPT ![w] =
                      IF ~original_path.ok THEN Done("restore", "IOFailure", req[w])
                      ELSE IF exists(fs, original_path.path)
                      THEN Done("restore", "AlreadyExists", req[w])
                      ELSE [req[w] EXCEPT !.pc = "free"]]
        /\ UNCHANGED <<fs, now, nextId, fileOps, last, purged>>

\* restore: original_path.parent.mkdir(parents=True, exist_ok=True)
RestoreMkdir(w) ==
    LET original_path == get_safe_path(req[w].info.original_path)
        made == mkdir_parents(fs, parent(original_path.path), TRUE)
    IN  /\ req[w].pc = "free"
        /\ fs' = made.fs
        /\ req' = [req EXCEPT ![w] =
                      IF made.ok THEN [req[w] EXCEPT !.pc = "made"]
                      ELSE Done("restore", "IOFailure", req[w])]
        /\ UNCHANGED <<now, nextId, fileOps, last, purged>>

\* a move back that passes over a source that is not there
MoveBackQuiet(f, info) ==
    IF ~exists(f, ItemPath(info)) THEN [ok |-> TRUE, fs |-> f]
    ELSE shutil_move(f, ItemPath(info), get_safe_path(info.original_path).path)

\* restore: shutil.move(str(item_path), str(original_path))
MoveBack(f, info) ==
    shutil_move(f, ItemPath(info), get_safe_path(info.original_path).path)

\* restore: the move back; a move that raises ends the request
RestoreMove(w) ==
    LET moved == MoveBack(fs, req[w].info)
    IN  /\ req[w].pc = "made"
        /\ fs' = moved.fs
        /\ req' = [req EXCEPT ![w] =
                      IF moved.ok THEN [req[w] EXCEPT !.pc = "moved back"]
                      ELSE Done("restore", "IOFailure", req[w])]
        /\ UNCHANGED <<now, nextId, fileOps, last, purged>>

\* restore: del metadata[item_id], save_metadata(metadata) and the response
RestoreSave(w) ==
    /\ req[w].pc = "moved back"
    /\ fs' = save_metadata(fs, MetaDel(req[w].metadata, {req[w].item_id}))
    /\ req' = [req EXCEPT ![w] = Done("restore", "Ok", req[w])]
    /\ UNCHANGED <<now, nextId, fileOps, last, purged>>

\* POST /permanent-delete: metadata = load_metadata() and the test of the id
PermanentLoad(w) ==
    /\ req[w].pc = "idle"
    /\ \E item_id \in DrawnIds :
          LET metadata == load_metadata(fs)
              r == [NoDetail EXCEPT !.item_id = item_id]
          IN  req' = [req EXCEPT ![w] =
                  IF item_id \notin MetaIds(metadata)
                  THEN Done("permanent_delete", "NotFound", r)
                  ELSE [r EXCEPT !.metadata = metadata,
                                 !.info = MetaGet(metadata, item_id)]
                       @@ [pc |-> "deleting"]]
    /\ UNCHANGED <<fs, now, nextId, fileOps, last, purged>>

\* permanent_delete: the unlink or rmtree of the object, when it exists
PermanentRemove(w) ==
    /\ req[w].pc = "deleting"
    /\ \E raises \in BOOLEAN :
          IF exists(fs, ItemPath(req[w].info)) /\ raises
          THEN /\ fs' = fs
               /\ req' = [req EXCEPT ![w] =
                             Done("permanent_delete", "IOFailure", req[w])]
          ELSE /\ fs' = IF exists(fs, ItemPath(req[w].info))
                        THEN RemoveTree(fs, ItemPath(req[w].info)) ELSE fs
               /\ req' = [req EXCEPT ![w].pc = "deleted"]
    /\ UNCHANGED <<now, nextId, fileOps, last, purged>>

\* permanent_delete: del metadata[item_id], save_metadata(metadata) and the
\* response
PermanentSave(w) ==
    /\ req[w].pc = "deleted"
    /\ fs' = save_metadata(fs, MetaDel(req[w].metadata, {req[w].item_id}))
    /\ req' = [req EXCEPT ![w] = Done("permanent_delete", "Ok", req[w])]
    /\ UNCHANGED <<now, nextId, fileOps, last, purged>>

\* no request is being handled and no response is waited for; the clock is
\* read between the pairs
Quiet == \A w \in Workers : req[w].pc = "idle"

\* both responses are there: the threads are free for the next pair
Settle ==
    /\ \A w \in Workers : req[w].pc \in {"idle", "done"}
    /\ \E w \in Workers : req[w].pc = "done"
    /\ req' = [w \in Workers |-> Idle]
    /\ UNCHANGED <<fs, now, nextId, fileOps, last, purged>>

\* a thread is handling the recycle-bin page, or has answered it
Sweeps(w) ==
    \/ req[w].pc \in {"sweeping", "swept"}
    \/ req[w].pc = "done" /\ req[w].op = "recycle_bin"

\* the other request of a pair with the page is a delete, a restore or a
\* permanent delete
StartsOther(w) == \A v \in Workers \ {w} : req[v].pc = "idle" \/ Sweeps(v)

\* the page is requested alone or next to a request of another kind
StartsSweep(w) == \A v \in Workers \ {w} : ~Sweeps(v)

\* the page next to a delete, a restore or a permanent delete
NextRace ==
    \/ \E w \in Workers : StartsOther(w) /\ DeleteMove(w)
    \/ \E w \in Workers : DeleteLoad(w)
    \/ \E w \in Workers : DeleteRespond(w)
    \/ \E w \in Workers : StartsSweep(w) /\ SweepLoad(w)
    \/ \E w \in Workers : SweepLoop(w)
    \/ \E w \in Workers : SweepRespond(w)
    \/ \E w \in Workers : StartsOther(w) /\ RestoreLoad(w)
    \/ \E w \in Workers : RestoreFind(w)
    \/ \E w \in Workers : RestoreCheck(w)
    \/ \E w \in Workers : RestoreMkdir(w)
    \/ \E w \in Workers : RestoreMove(w)
    \/ \E w \in Workers : RestoreSave(w)
    \/ \E w \in Workers : StartsOther(w) /\ PermanentLoad(w)
    \/ \E w \in Workers : PermanentRemove(w)
    \/ \E w \in Workers : PermanentSave(w)
    \/ Settle
    \/ Quiet /\ Tick

SpecRace == InitConc /\ [][NextRace]_vars

\* POST /delete handled alone, for a path outside the recycle bin
DeleteAlone ==
    /\ Quiet
    /\ \E filepath \in LivePaths(fs) : DeleteReq(filepath)

\* two restores at a time, of items deleted before
NextRestore ==
    \/ DeleteAlone
    \/ \E w \in Workers : RestoreLoad(w)
    \/ \E w \in Workers : RestoreFind(w)
    \/ \E w \in Workers : RestoreCheck(w)
    \/ \E w \in Workers : RestoreMkdir(w)
    \/ \E w \in Workers : RestoreMove(w)
    \/ \E w \in Workers : RestoreSave(w)
    \/ Settle

SpecRestore == InitConc /\ [][NextRestore]_vars

---------------------------------------------------------------------------
(* Properties *)

\* the entries of the recycle bin directory other than the metadata document
BinObjects(f) ==
    {q \in DOMAIN f : parent(q) = get_recycle_bin_path
                      /\ q # get_metadata_file}

\* a record has its object in the recycle bin
HasObject(f, info) == exists(f, ItemPath(info))

\* C1: whatever string is sent, a path get_safe_path returns is the shared
\* directory or one of its descendants, never a sibling directory whose name
\* only begins with the shared directory's name
C1_Contained ==
    (last.op = "get_safe_path" /\ last.status = "Ok")
        => is_relative_to(last.target, resolve(SHARED_DIRECTORY))

\* C2: a soft delete of a path under the shared directory other than the
\* recycle bin, directly followed by the restore of the id it returned,
\* succeeds, puts the item back at its path with its contents, and leaves
\* neither the record nor the object in the recycle bin
C2_RoundTrip ==
    [][(/\ last.op = "delete"
        /\ last.status = "Ok"
        /\ is_relative_to(parent(SafeTarget(last.path)), SHARED_DIRECTORY)
        /\ SafeTarget(last.path) # get_recycle_bin_path
        /\ RestoreReq(last.id))
       => /\ last'.status = "Ok"
          /\ Snapshot(fs', SafeTarget(last.path)) = last.snap
          /\ last.id \notin MetaIds(load_metadata(fs'))
          /\ \A q \in DOMAIN fs' :
                parent(q) = get_recycle_bin_path => ~startswith(name(q), last.id)]_vars

\* C3: once a permanent delete of a soft-deleted id has succeeded, the id has
\* no record and no object in the recycle bin, and every later restore or
\* permanent delete of it answers NotFound and changes nothing
C3_GoneForGood ==
    [][\A item_id \in purged :
          /\ item_id \notin MetaIds(load_metadata(fs))
          /\ \A q \in DOMAIN fs :
                parent(q) = get_recycle_bin_path => ~startswith(name(q), item_id)
          /\ (RestoreReq(item_id) \/ \E raises \in BOOLEAN :
                                        PermanentDeleteReq(item_id, raises))
                => (last'.status = "NotFound" /\ fs' = fs)]_vars

\* C4: between requests the records of the store and the objects of the
\* recycle bin correspond one to one: every record has its object, every
\* object has exactly one record
C4_Correspondence ==
    LET metadata == load_metadata(fs)
    IN  /\ \A i \in 1 .. Len(metadata) : HasObject(fs, metadata[i])
        /\ \A q \in BinObjects(fs) :
              Cardinality({i \in 1 .. Len(metadata) :
                              ItemPath(metadata[i]) = q}) = 1

\* the recycle bin holds the object of an id
ObjectOf(f, item_id) ==
    \E q \in BinObjects(f) : startswith(name(q), item_id)

\* C5: the save of a soft delete writes the mapping the request loaded plus
\* its own record, and the save of a purging sweep the mapping it loaded less
\* the purged ids, so a record another request stored since the load is lost
\* while nothing but the metadata document changes
C5_StaleWrite ==
    [][\A w \in Workers :
          /\ DeleteSave(w) =>
                /\ MetaIds(load_metadata(fs'))
                      = MetaIds(req[w].metadata) \cup {req[w].unique_id}
                /\ BinObjects(fs') = BinObjects(fs)
          /\ (SweepStore(w) /\ req[w].items_to_remove # {}) =>
                /\ MetaIds(load_metadata(fs'))
                      = MetaIds(req[w].metadata) \ req[w].items_to_remove
                /\ BinObjects(fs') = BinObjects(fs)]_vars

\* two soft deletes have finished, both objects are in the recycle bin, and
\* the store holds the record of one of them only
C5_LostUpdate ==
    /\ \A w \in Workers : req[w].pc = "idle"
    /\ nextId = 3
    /\ ObjectOf(fs, IdStr(1))
    /\ ObjectOf(fs, IdStr(2))
    /\ Cardinality(StoreIds) = 1

\* a sweep that has purged a record is about to save the mapping it loaded
\* before a soft delete, finished since, stored its record
C5_SweepLoss ==
    \E w \in Workers :
        /\ req[w].pc = "swept"
        /\ req[w].items_to_remove # {}
        /\ \A v \in Workers \ {w} : req[v].pc = "idle"
        /\ \E item_id \in StoreIds \ MetaIds(req[w].metadata) :
              ObjectOf(fs, item_id)

\* the age of a record in whole days
Age(info) == days_diff(now, info.deleted_time)

\* C6: the sweep of the recycle-bin page leaves every record younger than
\* RECYCLE_DAYS whole days in the store as it was, and its object in the
\* recycle bin as it was
C6_YoungKept ==
    [][last'.op = "recycle_bin" =>
          LET metadata == load_metadata(fs)
          IN  \A i \in 1 .. Len(metadata) :
                 Age(metadata[i]) < RECYCLE_DAYS =>
                    /\ metadata[i].id \in MetaIds(load_metadata(fs'))
                    /\ MetaGet(load_metadata(fs'), metadata[i].id) = metadata[i]
                    /\ Snapshot(fs', ItemPath(metadata[i]))
                          = Snapshot(fs, ItemPath(metadata[i]))]_vars

\* a sweep has purged a record while a record one day short of the threshold
\* stays with its object
C6_Witness ==
    /\ last.op = "recycle_bin"
    /\ last.count >= 1
    /\ \E i \in 1 .. Len(last.snap) :
          /\ Age(last.snap[i]) = RECYCLE_DAYS - 1
          /\ last.snap[i].id \in StoreIds
          /\ HasObject(fs, last.snap[i])

IntoItself(f) ==
    {<<RelStr(source), RelStr(dest_dir)>> :
        <<source, dest_dir>> \in
            {x \in {q \in DOMAIN f : is_relative_to(parent(q), SHARED_DIRECTORY)
                                     /\ is_dir(f, q)}
                   \X {q \in DOMAIN f : is_dir(f, q)} :
                is_relative_to(x[2], x[1])}}

\* C8 as stated: a copy or move of a directory into itself or into one of its
\* descendants answers InvalidOperation and changes nothing
C8_IntoItselfInvalid ==
    [][(/\ last'.op \in {"copy", "move"}
        /\ <<last'.path, last'.dest>> \in IntoItself(fs))
       => (last'.status = "InvalidOperation" /\ fs' = fs)]_vars

\* C8: a copy or move of a directory into itself or into one of its
\* descendants changes nothing and answers AlreadyExists when the destination
\* directory holds an entry of the source's name, else InvalidOperation
C8_IntoItselfRejected ==
    [][(/\ last'.op \in {"copy", "move"}
        /\ <<last'.path, last'.dest>> \in IntoItself(fs))
       => /\ last'.status = IF exists(fs, DestOf(last'.path, last'.dest))
                            THEN "AlreadyExists" ELSE "InvalidOperation"
          /\ fs' = fs]_vars

\* a copy or move of a directory into itself has been answered
\* InvalidOperation
C8_Witness ==
    /\ last.op \in {"copy", "move"}
    /\ last.status = "InvalidOperation"
    /\ <<last.path, last.dest>> \in IntoItself(fs)

\* the failures of a file operation that reject the request
Rejections == {"AlreadyExists", "NotFound", "InvalidOperation"}

\* C9: a mkdir, rename, copy or move that is rejected for an existence
\* conflict, a missing source or destination, or self-containment leaves
\* the whole filesystem as it was
C9_RejectedUntouched ==
    [][(/\ last'.op \in {"mkdir", "rename", "copy", "move"}
        /\ last'.status \in Rejections)
       => fs' = fs]_vars

\* the copy of a file into the directory it is in has been rejected, the file
\* being there already
C9_Witness ==
    /\ last.op = "copy"
    /\ last.status = "AlreadyExists"
    /\ is_file(fs, SafeTarget(last.path))
    /\ SafeTarget(last.dest) = parent(SafeTarget(last.path))

\* C10: a rename of an existing item whose new name is empty after the
\* dangerous characters, the control characters and the surrounding dots and
\* spaces are taken out answers InvalidName and renames nothing
C10_EmptyNameInvalid ==
    [][(/\ last'.op = "rename"
        /\ get_safe_path(last'.path).ok
        /\ exists(fs, SafeTarget(last'.path))
        /\ Stripped(last'.dest) = <<>>)
       => (last'.status = "InvalidName" /\ fs' = fs)]_vars

\* the directory a mkdir is asked to make
NewDir(current_path, dirname) ==
    Append(SafeTarget(current_path), safe_filename(dirname))

\* C11: a mkdir whose parent / sanitized name already exists answers
\* AlreadyExists and changes nothing; so the second of two equal mkdir calls
\* in a row, the first of which succeeded, answers AlreadyExists
C11_MkdirTwice ==
    [][(/\ last'.op = "mkdir"
        /\ last'.dest # <<>>
        /\ get_safe_path(last'.path).ok)
       => /\ exists(fs, NewDir(last'.path, last'.dest))
                => (last'.status = "AlreadyExists" /\ fs' = fs)
          /\ (/\ last.op = "mkdir"
              /\ last.status = "Ok"
              /\ last'.path = last.path
              /\ last'.dest = last.dest)
                => (/\ last'.status = "AlreadyExists"
                    /\ fs' = fs
                    /\ is_dir(fs', NewDir(last'.path, last'.dest)))]_vars

\* a mkdir has been rejected for the directory that the one successful file
\* operation so far, a mkdir, had made
C11_Witness ==
    /\ last.op = "mkdir"
    /\ last.status = "AlreadyExists"
    /\ fileOps = 1
    /\ DOMAIN fs = DOMAIN InitFs \cup {NewDir(last.path, last.dest)}
    /\ NewDir(last.path, last.dest) \notin DOMAIN InitFs
    /\ \A q \in DOMAIN InitFs : fs[q] = InitFs[q]

\* C12: a soft delete whose path names something inside the recycle bin
\* never succeeds
C12_NoRetrash ==
    [][(last'.op = "delete" /\ last'.status = "Ok")
       => ~is_relative_to(parent(SafeTarget(last'.path)), get_recycle_bin_path)]_vars

\* C13: no mkdir, rename, copy or move changes the recycle bin: the directory,
\* the metadata document and the objects are after the call what they were
C13_BinOwned ==
    [][last'.op \in {"mkdir", "rename", "copy", "move"}
       => Snapshot(fs', get_recycle_bin_path) = Snapshot(fs, get_recycle_bin_path)]_vars

\* C14: a soft delete whose path resolves to the recycle bin directory fails,
\* with InvalidOperation when the directory exists, moves nothing, draws no
\* id and adds no record
C14_BinRefused ==
    [][last'.op = "delete" =>
          \A filepath \in UserPaths(fs) :
             (/\ DeleteReq(filepath)
              /\ get_safe_path(filepath).ok
              /\ SafeTarget(filepath) = get_recycle_bin_path)
             => /\ last'.status = IF exists(fs, get_recycle_bin_path)
                                  THEN "InvalidOperation" ELSE "NotFound"
                /\ fs' = fs
                /\ nextId' = nextId]_vars

\* the soft delete of the recycle bin has been refused, its records being
\* in the store
C14_Witness ==
    /\ last.op = "delete"
    /\ last.status = "InvalidOperation"
    /\ StoreIds # {}

\* C15: a restore answers NotFound when the id has no record or the record
\* has no object in the recycle bin, and AlreadyExists when record and object
\* are there and the recorded original path is occupied; in each case the
\* store, the recycle bin and the original path are left as they were
C15_RestoreFailures ==
    [][last'.op = "restore" =>
          LET metadata == load_metadata(fs)
              known == last'.id \in MetaIds(metadata)
              info == MetaGet(metadata, last'.id)
          IN  /\ (~known \/ ~HasObject(fs, info))
                    => (last'.status = "NotFound" /\ fs' = fs)
              /\ (/\ known
                  /\ HasObject(fs, info)
                  /\ exists(fs, SafeTarget(info.original_path)))
                    => (last'.status = "AlreadyExists" /\ fs' = fs)]_vars

\* a restore has been answered AlreadyExists: the record and its object are
\* in the recycle bin and the original path is occupied
C15_Witness ==
    /\ last.op = "restore"
    /\ last.status = "AlreadyExists"
    /\ last.id \in StoreIds
    /\ HasObject(fs, MetaGet(load_metadata(fs), last.id))
    /\ exists(fs, SafeTarget(MetaGet(load_metadata(fs), last.id).original_path))

\* C16: a permanent delete of an id that has a record but no object in the
\* recycle bin succeeds, takes the record out of the store, and leaves the
\* other records and everything else as they were
C16_RecordDropped ==
    [][last'.op = "permanent_delete" =>
          LET metadata == load_metadata(fs)
          IN  (/\ last'.id \in MetaIds(metadata)
               /\ ~HasObject(fs, MetaGet(metadata, last'.id)))
              => /\ last'.status = "Ok"
                 /\ load_metadata(fs') = MetaDel(metadata, {last'.id})
                 /\ \A q \in DOMAIN fs \cup DOMAIN fs' :
                       q # get_metadata_file
                          => (q \in DOMAIN fs /\ q \in DOMAIN fs' /\ fs'[q] = fs[q])]_vars

\* a permanent delete has succeeded that found nothing to remove, and another
\* record is still in the store
C16_Witness ==
    /\ last.op = "permanent_delete"
    /\ last.status = "Ok"
    /\ DOMAIN last.snap = {}
    /\ last.id \notin StoreIds
    /\ StoreIds # {}

\* C17: empty-recycle-bin succeeds and leaves the store empty whichever
\* deletions raise and whichever objects are missing; the objects it removes
\* are those of the records that were present and did not raise, the others
\* stay, and the count it reports is the number it removed
C17_EmptyAll ==
    [][last'.op = "empty_recycle_bin" =>
          \A failing \in SUBSET StoreIds :
             EmptyRecycleBinReq(failing) =>
                LET metadata == load_metadata(fs)
                    removed == {i \in 1 .. Len(metadata) :
                                   /\ HasObject(fs, metadata[i])
                                   /\ metadata[i].id \notin failing}
                IN  /\ last'.status = "Ok"
                    /\ load_metadata(fs') = <<>>
                    /\ last'.count = Cardinality(removed)
                    /\ \A i \in 1 .. Len(metadata) :
                          IF i \in removed
                          THEN ~HasObject(fs', metadata[i])
                          ELSE Snapshot(fs', ItemPath(metadata[i]))
                                  = Snapshot(fs, ItemPath(metadata[i]))]_vars

\* empty-recycle-bin has removed an object, has failed to remove another that
\* is still in the recycle bin, and has left the store empty
C17_Witness ==
    /\ last.op = "empty_recycle_bin"
    /\ last.count >= 1
    /\ last.count < Len(last.snap)
    /\ \E i \in 1 .. Len(last.snap) : HasObject(fs, last.snap[i])
    /\ load_metadata(fs) = <<>>

\* C18: the sweep of the recycle-bin page keeps every record whose object is
\* missing from the recycle bin, whatever its age, and the number it reports
\* is the number of records that left the store
C18_OrphansKept ==
    [][last'.op = "recycle_bin" =>
          LET metadata == load_metadata(fs)
          IN  /\ \A i \in 1 .. Len(metadata) :
                    ~HasObject(fs, metadata[i]) =>
                       /\ metadata[i].id \in MetaIds(load_metadata(fs'))
                       /\ MetaGet(load_metadata(fs'), metadata[i].id) = metadata[i]
              /\ last'.count = Cardinality(MetaIds(metadata)
                                              \ MetaIds(load_metadata(fs')))
              /\ MetaIds(load_metadata(fs')) \subseteq MetaIds(metadata)]_vars

\* a sweep has purged a record and has kept a record past the threshold whose
\* object is missing
C18_Witness ==
    /\ last.op = "recycle_bin"
    /\ last.count >= 1
    /\ \E i \in 1 .. Len(last.snap) :
          /\ Age(last.snap[i]) >= RECYCLE_DAYS
          /\ last.snap[i].id \in StoreIds
          /\ ~HasObject(fs, last.snap[i])

\* the ids of the rows of a recycle-bin page
Listed(items) == {items[i].id : i \in 1 .. Len(items)}

\* C19: the recycle-bin page is made after a sweep; its rows are, once each,
\* the records of the store that have their object in the recycle bin, each
\* with days_left = max(0, RECYCLE_DAYS - age), which lies in
\* 0 .. RECYCLE_DAYS; the page asked for right after a soft delete lists the
\* deleted item with days_left = RECYCLE_DAYS
C19_Listing ==
    [][last'.op = "recycle_bin" =>
          LET metadata == load_metadata(fs')
              items == last'.items
          IN  /\ \E failing \in SUBSET StoreIds :
                    fs' = clean_old_items(fs, now, failing).fs
              /\ Listed(items) = {metadata[i].id : i \in
                                    {j \in 1 .. Len(metadata) :
                                        HasObject(fs', metadata[j])}}
              /\ Len(items) = Cardinality(Listed(items))
              /\ \A i \in 1 .. Len(items) :
                    LET info == MetaGet(metadata, items[i].id)
                    IN  /\ items[i].name = info.original_name
                        /\ items[i].original_path = info.original_path
                        /\ items[i].is_dir = info.is_dir
                        /\ items[i].days_left =
                              IF RECYCLE_DAYS - Age(info) > 0
                              THEN RECYCLE_DAYS - Age(info) ELSE 0
                        /\ items[i].days_left \in 0 .. RECYCLE_DAYS
              /\ (last.op = "delete" /\ last.status = "Ok") =>
                    \E i \in 1 .. Len(items) :
                       /\ items[i].id = last.id
                       /\ items[i].days_left = RECYCLE_DAYS]_vars

\* a page lists an item with all its days left and skips a record whose
\* object is missing
C19_Witness ==
    /\ last.op = "recycle_bin"
    /\ \E i \in 1 .. Len(last.items) : last.items[i].days_left = RECYCLE_DAYS
    /\ \E item_id \in StoreIds \ Listed(last.items) :
          ~HasObject(fs, MetaGet(load_metadata(fs), item_id))

\* C20: safe_filename applied to a name it returned returns that name, for
\* every name sent, the names that become the fallback included
C20_Idempotent ==
    (last.op = "safe_filename") =>
        /\ safe_filename(last.result) = last.result
        /\ (last.filename # req.filename => last.result = last.filename)

\* a name of stripped, dangerous and control characters became the fallback,
\* and the fallback was sanitized again
C20_Witness ==
    /\ last.op = "safe_filename"
    /\ req.filename # <<>>
    /\ Stripped(req.filename) = <<>>
    /\ last.filename = UNNAMED
    /\ last.result = UNNAMED

\* the path a rename is asked to give the item: its parent / the sanitized name
NewPath(filepath, new_name) ==
    Append(parent(get_safe_path(filepath).path), safe_filename(new_name))

\* a rename request with both parameters for an item that exists in the
\* shared directory
RenameOfItem(f, filepath, new_name) ==
    /\ filepath # <<>>
    /\ new_name # <<>>
    /\ get_safe_path(filepath).ok
    /\ exists(f, get_safe_path(filepath).path)

\* C21 as stated: a rename of an item answers AlreadyExists and changes
\* nothing when a sibling has the sanitized new name; otherwise the item is
\* at parent / sanitized name afterwards and no longer at its old path
C21_RenameUnlessSibling ==
    [][(last'.op = "rename" /\ RenameOfItem(fs, last'.path, last'.dest)) =>
          LET target_path == get_safe_path(last'.path).path
              new_path == NewPath(last'.path, last'.dest)
          IN  IF exists(fs, new_path) /\ new_path # target_path
              THEN last'.status = "AlreadyExists" /\ fs' = fs
              ELSE /\ exists(fs', new_path)
                   /\ ~exists(fs', target_path)]_vars

\* C21: a rename of an item answers AlreadyExists and changes nothing when
\* anything, the item itself included, is at parent / sanitized new name;
\* otherwise it succeeds, the item's tree is at parent / sanitized name in the
\* same parent directory, nothing is at its old path, and nothing else changed
C21_RenameUnlessTaken ==
    [][(last'.op = "rename" /\ RenameOfItem(fs, last'.path, last'.dest)) =>
          LET target_path == get_safe_path(last'.path).path
              new_path == NewPath(last'.path, last'.dest)
          IN  IF exists(fs, new_path)
              THEN last'.status = "AlreadyExists" /\ fs' = fs
              ELSE /\ last'.status = "Ok"
                   /\ parent(new_path) = parent(target_path)
                   /\ Snapshot(fs', new_path) = Snapshot(fs, target_path)
                   /\ ~exists(fs', target_path)
                   /\ RemoveTree(fs', new_path) = RemoveTree(fs, target_path)]_vars

\* a rename has been refused because a sibling of the item has the new name
C21_Witness ==
    /\ last.op = "rename"
    /\ last.status = "AlreadyExists"
    /\ RenameOfItem(fs, last.path, last.dest)
    /\ NewPath(last.path, last.dest) # get_safe_path(last.path).path
    /\ exists(fs, NewPath(last.path, last.dest))

\* C22: a soft delete that succeeds changes the store only by adding one
\* record under an id the store did not have: every record of the store
\* before is in the store after, unchanged
C22_OnlyAdds ==
    [][(last'.op = "delete" /\ last'.status = "Ok") =>
          LET before == load_metadata(fs)
              after == load_metadata(fs')
          IN  /\ last'.id \notin MetaIds(before)
              /\ MetaIds(after) = MetaIds(before) \cup {last'.id}
              /\ \A i \in 1 .. Len(before) :
                    /\ before[i].id \in MetaIds(after)
                    /\ MetaGet(after, before[i].id) = before[i]]_vars

\* C23: no step of a sweep that purges no record writes anything, the
\* metadata document included: not its load, not its loop when the loop
\* removes nothing, not its end when nothing was removed; so the store is at
\* every point what the delete, restore or permanent delete handled next to
\* the sweep made it
C23_QuietSweep ==
    [][\A w \in Workers :
          /\ (req[w].pc = "idle" /\ req'[w].pc = "sweeping") => fs' = fs
          /\ (/\ req[w].pc = "sweeping"
              /\ req'[w].pc = "swept"
              /\ req'[w].items_to_remove = {}) => fs' = fs
          /\ (/\ req[w].pc = "swept"
              /\ req'[w].pc = "done"
              /\ req[w].items_to_remove = {})
                => /\ fs' = fs
                   /\ req'[w].count = 0
                   /\ req'[w].store = load_metadata(fs)]_vars

\* a sweep that purged nothing has answered after a restore, handled next to
\* it, took out of the store a record the sweep had loaded: the record is not
\* back in the store
C23_Witness ==
    \E w \in Workers : \E v \in Workers \ {w} :
        /\ req[w].pc = "done" /\ req[w].op = "recycle_bin" /\ req[w].count = 0
        /\ req[v].pc = "done" /\ req[v].op = "restore" /\ req[v].status = "Ok"
        /\ req[v].item_id \in MetaIds(req[w].metadata)
        /\ req[v].item_id \notin MetaIds(req[w].store)
        /\ req[v].item_id \notin StoreIds

\* both threads have answered a restore of the same id
BothRestored(w, v) ==
    /\ req[w].pc = "done" /\ req[w].op = "restore"
    /\ req[v].pc = "done" /\ req[v].op = "restore"
    /\ req[w].item_id = req[v].item_id

\* C24: of two restores of one id handled at the same time at most one
\* answers with success; when the item could be restored as a request
\* arrived, then once both have answered exactly one has succeeded, the tree
\* that was in the recycle bin is at the recorded path, the object is no
\* longer in the recycle bin, and the store has no record of the id
C24_OneRestore ==
    \A w \in Workers : \A v \in Workers \ {w} :
        BothRestored(w, v) =>
            /\ ~(req[w].status = "Ok" /\ req[v].status = "Ok")
            /\ req[w].restorable =>
                  /\ req[w].status = "Ok" \/ req[v].status = "Ok"
                  /\ Snapshot(fs, get_safe_path(req[w].info.original_path).path)
                        = req[w].tree
                  /\ ~exists(fs, ItemPath(req[w].info))
                  /\ req[w].item_id \notin StoreIds

\* both restores passed every test, one moved the object back and answered
\* with success, the move of the other raised
C24_Witness ==
    \E w \in Workers : \E v \in Workers \ {w} :
        /\ BothRestored(w, v)
        /\ req[w].restorable /\ req[v].restorable
        /\ req[w].status = "Ok"
        /\ req[v].status = "IOFailure"

\* a record of a directory that is in the recycle bin and was at the path
\* given, where nothing is now
TrashedDirAt(f, info, path) ==
    /\ info.is_dir
    /\ HasObject(f, info)
    /\ SafeTarget(info.original_path) = path
    /\ ~exists(f, path)

\* C25: when an item and then its parent directory have been soft-deleted,
\* the restore of the item succeeds: it makes the directory again and puts
\* the item, and nothing else, into it, and leaves the directory's record and
\* trashed object as they were; the restore of the directory's id that
\* follows answers AlreadyExists and changes nothing
C25_ChildThenParent ==
    [][last'.op = "restore" =>
          LET metadata == load_metadata(fs)
          IN  /\ \A i, k \in 1 .. Len(metadata) :
                    LET info == metadata[i]
                        original_path == SafeTarget(info.original_path)
                    IN  (/\ info.id = last'.id
                         /\ HasObject(fs, info)
                         /\ get_safe_path(info.original_path).ok
                         /\ TrashedDirAt(fs, metadata[k], parent(original_path)))
                        => /\ last'.status = "Ok"
                           /\ is_dir(fs', parent(original_path))
                           /\ Snapshot(fs', original_path)
                                 = Snapshot(fs, ItemPath(info))
                           /\ Under(fs', parent(original_path))
                                 = {parent(original_path)} \cup Under(fs', original_path)
                           /\ metadata[k] \in
                                 {load_metadata(fs')[n] : n \in 1 .. Len(load_metadata(fs'))}
                           /\ Snapshot(fs', ItemPath(metadata[k]))
                                 = Snapshot(fs, ItemPath(metadata[k]))
              /\ \A k \in 1 .. Len(metadata) :
                    (/\ last.op = "restore"
                     /\ last.status = "Ok"
                     /\ metadata[k].id = last'.id
                     /\ metadata[k].is_dir
                     /\ HasObject(fs, metadata[k])
                     /\ SafeTarget(metadata[k].original_path)
                           = parent(SafeTarget(last.path)))
                    => (last'.status = "AlreadyExists" /\ fs' = fs)]_vars

\* the restore of a trashed directory has been answered AlreadyExists: the
\* directory is there again with an item in it, and its record and its
\* trashed object are in the recycle bin
C25_Witness ==
    /\ last.op = "restore"
    /\ last.status = "AlreadyExists"
    /\ last.id \in StoreIds
    /\ LET info == MetaGet(load_metadata(fs), last.id)
       IN  /\ info.is_dir
           /\ HasObject(fs, info)
           /\ is_dir(fs, SafeTarget(info.original_path))
           /\ Under(fs, SafeTarget(info.original_path))
                 # {SafeTarget(info.original_path)}
           /\ is_relative_to(SafeTarget(info.original_path), SHARED_DIRECTORY)
           /\ ~is_relative_to(SafeTarget(info.original_path), get_recycle_bin_path)

============================================================================
